---- MODULE Spec2Model ----
(***************************************************************************)
(* Model of the canonical-event store of sports-signals-system:            *)
(* DataAccess.save_or_update_event (src/shared/database/data_access.py)    *)
(* over the tables of src/shared/database/models.py, fed with the records  *)
(* the DataNormalizer (src/shared/core/normalizer.py) produces; of the     *)
(* token bucket of src/shared/core/anti_block.py; and of the two services  *)
(* that use them, src/data-collector/main.py and src/live-monitor/main.py. *)
(***************************************************************************)
EXTENDS Integers, Sequences, FiniteSets, TLC

VARIABLES
    events,     \* table 'events': events[i] is the row with primary key i
    mappings,   \* table 'event_source_mappings': mappings[i] is row i
    last,       \* the last save_or_update_event call: arguments and outcome
    calls,      \* number of save_or_update_event calls made so far
    trial,      \* two observations applied to the tables in both orders
    txn,        \* txn[s]: the transaction of session s (concurrent calls)
    query,      \* the last read-only query on the events table
    bucket,     \* TokenBucketAntiBlockStrategy: parameters, tokens, time
    lock,       \* self.lock: the thread holding it, 0 when free
    pc,         \* pc[t]: where thread t is in wait_before_request
    nap,        \* ticks left of the time.sleep in progress
    sleeps,     \* the sleeps, in ticks, of the call holding the lock
    grants,     \* one record per returned wait_before_request, oldest first
    acquires,   \* number of wait_before_request calls made so far
    monitor,    \* monitor_live_matches: its passes and what the last one did
    collector   \* collect_and_save_data: its position and its network steps

\* The variables of the token bucket.
bucketVars == <<bucket, lock, pc, nap, sleeps, grants, acquires>>

\* The variables save_or_update_event never touches.
others == <<query, bucketVars, monitor, collector>>

vars == <<events, mappings, last, calls, trial, txn, others>>

(***************************************************************************)
(* Bounds of the model.                                                    *)
(***************************************************************************)
MaxCalls == 3       \* save_or_update_event calls in one behaviour
MaxTime == 2        \* last_updated_timestamp ranges over 1..MaxTime
MaxNullCalls == 4   \* calls in one behaviour of SpecNullLeague
MaxPartialCalls == 2 \* calls in one behaviour of SpecPartial
MaxQueryCalls == 3  \* save_or_update_event calls in one behaviour of SpecQuery
MaxNow == 3         \* the current time of a query ranges over 0..MaxNow
MaxPasses == 2      \* passes of the live monitor's loop in one behaviour
MaxMonitorCalls == 2 \* calls that fill the table before the monitor runs
MaxAcquires == 3    \* wait_before_request calls in one behaviour of SpecBucket
MaxNaps == 2        \* sleeps of one call that are recorded
MaxWindow == 4      \* longest time window, in ticks, the grants are counted over
MaxRaceCalls == 2   \* calls in one behaviour of SpecRace

(***************************************************************************)
(* Values.  A nullable value is <<>> (Python None / SQL NULL) or <<v>>.    *)
(***************************************************************************)
None == <<>>
Some(v) == <<v>>

UpdateTimes == 1..MaxTime

\* normalize_sofascore_match: league_id is str(...) and current_game_time is
\* replaced by 0 when absent, so neither is ever None.  The sampled matches
\* all start at instant 1 and are scheduled or in progress.
SofascoreEvents ==
    [event_name : {Some("A vs B")},
     sport_name : {Some("football")},
     event_timestamp : {Some(1)},
     home_team_name : {Some("A")},
     away_team_name : {Some("B")},
     league_id : {Some("10")},
     event_status : {"scheduled", "inprogress"},
     current_game_time : {Some(0), Some(1)},
     last_updated_timestamp : {Some(u) : u \in UpdateTimes}]

\* normalize_thesportsdb_match: league_id is the raw idLeague (None when the
\* payload has none) and current_game_time is always None.  The sampled
\* matches are fixtures starting at instant 1 or 2.
TheSportsDBEvents ==
    [event_name : {Some("A vs B")},
     sport_name : {Some("football")},
     event_timestamp : {Some(1), Some(2)},
     home_team_name : {Some("A")},
     away_team_name : {Some("B")},
     league_id : {None, Some("10")},
     event_status : {"scheduled"},
     current_game_time : {None},
     last_updated_timestamp : {Some(u) : u \in UpdateTimes}]

SourceEventIds == {"1", "2"}

\* A call's arguments: normalized_event_data and source_mapping_data.
Call(d, sn, sid) == [data |-> d, source_name |-> sn, source_event_id |-> sid]

NormalizedCalls ==
    {Call(d, "sofascore", Some(sid)) : d \in SofascoreEvents, sid \in SourceEventIds}
    \cup
    {Call(d, "thesportsdb", Some(sid)) : d \in TheSportsDBEvents, sid \in SourceEventIds}

\* Arguments with an essential value missing: the guard of save_or_update_event
\* rejects them before any lookup.
IncompleteCalls ==
    LET d == [event_name |-> Some("A vs B"), sport_name |-> Some("football"),
              event_timestamp |-> Some(1), home_team_name |-> Some("A"),
              away_team_name |-> Some("B"), league_id |-> Some("10"),
              event_status |-> "scheduled", current_game_time |-> Some(0),
              last_updated_timestamp |-> Some(1)]
    IN  {Call([d EXCEPT !.event_timestamp = None], "sofascore", Some("1")),
         Call(d, "sofascore", None)}

Calls == NormalizedCalls \cup IncompleteCalls

\* Arguments whose record lacks event_name or sport_name, which the guard of
\* save_or_update_event does not look at.
PartialCalls ==
    {Call([d EXCEPT ![c] = None], "thesportsdb", Some(sid)) :
        d \in TheSportsDBEvents, c \in {"event_name", "sport_name"},
        sid \in SourceEventIds}

(***************************************************************************)
(* Rows and constraints of models.py.                                      *)
(***************************************************************************)
EventColumns ==
    {"event_name", "sport_name", "event_timestamp", "home_team_name", "away_team_name", "league_id",
     "event_status", "current_game_time", "last_data_source",
     "last_updated_timestamp"}

\* Mutant of NewEvent: the incoming last_updated_timestamp is not stored with
\* a new event, which starts with a stamp older than any incoming one.
NewEventWithoutStamp(d, sn) ==
    [c \in EventColumns |->
        IF c = "last_data_source" THEN Some(sn)
        ELSE IF c = "last_updated_timestamp" THEN Some(0) ELSE d[c]]

\* Event(**normalized_event_data) followed by last_data_source = source_name.
NewEvent(d, sn) ==
    [c \in EventColumns |-> IF c = "last_data_source" THEN Some(sn) ELSE d[c]]

\* EventSourceMapping(event_id=..., source_name=..., source_event_id=...)
NewMapping(id, sn, sid) ==
    [event_id |-> id, source_name |-> sn, source_event_id |-> sid]

\* The four columns of uq_event_canonical agree on rows a and b.
SameKey(a, b) ==
    /\ a.event_timestamp = b.event_timestamp
    /\ a.home_team_name = b.home_team_name
    /\ a.away_team_name = b.away_team_name
    /\ a.league_id = b.league_id

\* UniqueConstraint uq_event_canonical as PostgreSQL enforces it: rows with a
\* NULL in a constrained column never conflict (NULLs are distinct).
UqEventCanonical(ev) ==
    \A i, j \in DOMAIN ev :
        (i # j /\ SameKey(ev[i], ev[j])) => ev[i].league_id = None

\* UniqueConstraint uq_source_event (source_name, source_event_id).
UqSourceEvent(ms) ==
    \A i, j \in DOMAIN ms :
        (/\ i # j
         /\ ms[i].source_name = ms[j].source_name
         /\ ms[i].source_event_id = ms[j].source_event_id) => FALSE

\* Mutant of UqEventIdSource: the constraint declared on the wrong pair of
\* columns, (event_id, source_event_id).
UqEventIdSourceWrongColumns(ms) ==
    \A i, j \in DOMAIN ms :
        (/\ i # j
         /\ ms[i].event_id = ms[j].event_id
         /\ ms[i].source_event_id = ms[j].source_event_id) => FALSE

\* UniqueConstraint uq_event_id_source (event_id, source_name).
UqEventIdSource(ms) ==
    \A i, j \in DOMAIN ms :
        (/\ i # j
         /\ ms[i].event_id = ms[j].event_id
         /\ ms[i].source_name = ms[j].source_name) => FALSE

\* nullable=False on event_name and sport_name (the other NOT NULL columns
\* of Event are never None once the guard of line 54 has passed).
NotNull(ev) ==
    \A i \in DOMAIN ev : ev[i].event_name # None /\ ev[i].sport_name # None

\* What commit (or flush) checks: the NOT NULL columns and every unique
\* constraint of both tables.
ConstraintsHold(ev, ms) ==
    /\ NotNull(ev)
    /\ UqEventCanonical(ev)
    /\ UqSourceEvent(ms)
    /\ UqEventIdSource(ms)

(***************************************************************************)
(* save_or_update_event, data_access.py lines 29-161.                      *)
(***************************************************************************)
\* Line 54: all([...]) over the six essential values.
Essential(x) ==
    /\ x.data.event_timestamp # None
    /\ x.data.home_team_name # None
    /\ x.data.away_team_name # None
    /\ x.source_name # ""
    /\ x.source_event_id # None
    /\ x.data.last_updated_timestamp # None

\* Lines 63-66: rows of event_source_mappings with this source name and id.
MappingsFor(ms, x) ==
    {i \in DOMAIN ms : /\ ms[i].source_name = x.source_name
                       /\ ms[i].source_event_id = x.source_event_id}

\* Lines 76-81 and 147-152: events with the incoming dedup key.  SQLAlchemy
\* renders "league_id == None" as IS NULL, so a missing league id matches
\* the rows whose league_id is NULL.
EventsByKey(ev, d) == {i \in DOMAIN ev : SameKey(ev[i], d)}

\* Mutant of Targets: the dedup key is consulted before the mapping.
TargetsKeyFirst(ev, ms, x) ==
    IF EventsByKey(ev, x.data) # {}
    THEN {<<i, "key">> : i \in EventsByKey(ev, x.data)}
    ELSE IF MappingsFor(ms, x) # {}
         THEN {<<ms[i].event_id, "mapping">> : i \in MappingsFor(ms, x)}
         ELSE {<<0, "new">>}

\* Lines 63-83: the merge target.  <<id, via>>; id 0 when nothing is found.
\* .first() without ORDER BY returns any one of the matching rows.
Targets(ev, ms, x) ==
    IF MappingsFor(ms, x) # {}
    THEN {<<ms[i].event_id, "mapping">> : i \in MappingsFor(ms, x)}
    ELSE IF EventsByKey(ev, x.data) # {}
         THEN {<<i, "key">> : i \in EventsByKey(ev, x.data)}
         ELSE {<<0, "new">>}

\* Mutant of ShouldUpdate: the tie-break looks at the incoming status only.
ShouldUpdateIncomingStatusOnly(d, e) ==
    \/ d.last_updated_timestamp[1] > e.last_updated_timestamp[1]
    \/ /\ d.last_updated_timestamp[1] = e.last_updated_timestamp[1]
       /\ d.event_status = "inprogress"
       /\ d.current_game_time # None
       /\ \/ e.current_game_time = None
          \/ d.current_game_time[1] > e.current_game_time[1]

\* Mutant of ShouldUpdate: the timestamp comparison is reversed.
ShouldUpdateOlderWins(d, e) ==
    \/ d.last_updated_timestamp[1] < e.last_updated_timestamp[1]
    \/ /\ d.last_updated_timestamp[1] = e.last_updated_timestamp[1]
       /\ (d.event_status = "inprogress" \/ e.event_status = "inprogress")
       /\ d.current_game_time # None
       /\ \/ e.current_game_time = None
          \/ d.current_game_time[1] > e.current_game_time[1]

\* Mutant of ShouldUpdate: the tie-break accepts an equal game time.
ShouldUpdateOnEqualGameTime(d, e) ==
    \/ d.last_updated_timestamp[1] > e.last_updated_timestamp[1]
    \/ /\ d.last_updated_timestamp[1] = e.last_updated_timestamp[1]
       /\ (d.event_status = "inprogress" \/ e.event_status = "inprogress")
       /\ d.current_game_time # None
       /\ \/ e.current_game_time = None
          \/ d.current_game_time[1] >= e.current_game_time[1]

\* Lines 87-104: should_update.
ShouldUpdate(d, e) ==
    \/ d.last_updated_timestamp[1] > e.last_updated_timestamp[1]
    \/ /\ d.last_updated_timestamp[1] = e.last_updated_timestamp[1]
       /\ (d.event_status = "inprogress" \/ e.event_status = "inprogress")
       /\ d.current_game_time # None
       /\ \/ e.current_game_time = None
          \/ d.current_game_time[1] > e.current_game_time[1]

\* Lines 109-114: setattr for every key of the incoming record, then
\* last_data_source and last_updated_timestamp.
Merge(e, d, sn) ==
    [c \in DOMAIN e |->
        IF c = "last_data_source" THEN Some(sn)
        ELSE IF c \in DOMAIN d THEN d[c] ELSE e[c]]

\* Mutant of PendingEvents: the fields of a found event are overwritten
\* whatever should_update says.
PendingEventsAlwaysMerges(ev, x, t) ==
    IF t = 0
    THEN Append(ev, NewEvent(x.data, x.source_name))
    ELSE [ev EXCEPT ![t] = Merge(ev[t], x.data, x.source_name)]

\* Lines 85-126: the events table as the session holds it before commit.
PendingEvents(ev, x, t) ==
    IF t = 0
    THEN Append(ev, NewEvent(x.data, x.source_name))
    ELSE IF ShouldUpdate(x.data, ev[t])
         THEN [ev EXCEPT ![t] = Merge(ev[t], x.data, x.source_name)]
         ELSE ev

\* Mutant of PendingMappings: without the flush of line 123 the new event
\* has no id yet when the mapping row is built.
PendingMappingsWithoutFlush(ev, ms, x, t) ==
    IF MappingsFor(ms, x) = {}
    THEN Append(ms, NewMapping(t, x.source_name, x.source_event_id))
    ELSE ms
\* Mutant of PendingMappings: a provider that already maps to the target
\* under another id has that row rewritten instead of a row inserted.
PendingMappingsReplacesOld(ev, ms, x, t) ==
    LET id == IF t = 0 THEN Len(ev) + 1 ELSE t
        old == {i \in DOMAIN ms : /\ ms[i].source_name = x.source_name
                                  /\ ms[i].event_id = id}
    IN  IF MappingsFor(ms, x) # {} THEN ms
        ELSE IF old = {}
             THEN Append(ms, NewMapping(id, x.source_name, x.source_event_id))
             ELSE [i \in DOMAIN ms |->
                    IF i \in old
                    THEN NewMapping(id, x.source_name, x.source_event_id)
                    ELSE ms[i]]

\* Mutant of PendingMappings: a mapping row is added only together with a
\* new event, not for an event found by its key.
PendingMappingsOnlyForNewEvents(ev, ms, x, t) ==
    IF MappingsFor(ms, x) = {} /\ t = 0
    THEN Append(ms, NewMapping(Len(ev) + 1, x.source_name, x.source_event_id))
    ELSE ms

\* Lines 129-137: the mapping row is added only when none was found.
PendingMappings(ev, ms, x, t) ==
    IF MappingsFor(ms, x) = {}
    THEN Append(ms, NewMapping(IF t = 0 THEN Len(ev) + 1 ELSE t,
                               x.source_name, x.source_event_id))
    ELSE ms

\* Lines 143-156: after the rollback, the event re-read by the incoming key.
Reread(ev, d) ==
    IF EventsByKey(ev, d) = {} THEN {None}
    ELSE {Some(i) : i \in EventsByKey(ev, d)}

\* One execution of the try block for merge target t (lines 60-156).
Attempt(ev, ms, x, t, via) ==
    LET ev1 == PendingEvents(ev, x, t)
        ms1 == PendingMappings(ev, ms, x, t)
        su == IF t = 0 THEN FALSE ELSE ShouldUpdate(x.data, ev[t])
    IN  IF ConstraintsHold(ev1, ms1)
        THEN {[events |-> ev1, mappings |-> ms1, target |-> t, via |-> via,
               should_update |-> su, outcome |-> "committed",
               ret |-> Some(IF t = 0 THEN Len(ev) + 1 ELSE t)]}
        ELSE {[events |-> ev, mappings |-> ms, target |-> t, via |-> via,
               should_update |-> su, outcome |-> "rolled_back",
               ret |-> r] : r \in Reread(ev, x.data)}

\* Every result save_or_update_event can produce for arguments x on the
\* tables ev, ms.
Outcomes(ev, ms, x) ==
    IF ~Essential(x)
    THEN {[events |-> ev, mappings |-> ms, target |-> 0, via |-> "none",
           should_update |-> FALSE, outcome |-> "invalid", ret |-> None]}
    ELSE UNION {Attempt(ev, ms, x, tv[1], tv[2]) : tv \in Targets(ev, ms, x)}

\* No call made yet, no trial made yet.
NoCall == [x |-> Call(None, "", None), target |-> 0, via |-> "none",
           before |-> None, should_update |-> FALSE, outcome |-> "none",
           ret |-> None, repeat |-> FALSE]

NoTrial == [kind |-> "none"]

\* Sessions (SessionLocal(), one per service cycle) that run
\* save_or_update_event at the same time, each in its own transaction.
Sessions == {1, 2}

IdleTx == [stage |-> "idle"]

NoQuery == [op |-> "none"]

\* Threads that share one TokenBucketAntiBlockStrategy.
Threads == {1, 2}

NoBucket == [built |-> FALSE]

\* collect_and_save_data not started yet.
NoCollector == [pc |-> "idle", steps |-> <<>>]

\* monitor_live_matches not started yet.  upstream and transport are the
\* conditions a pass runs under; the other fields are what the passes did:
\* attention query, state, seconds slept and number of sleeps, the events
\* fetched, merged and published in the pass, the events handled in the
\* pass in the order of handling, the Redis client, the connections tried,
\* the sessions opened so far (the latest has that number), whether the
\* latest is still open and the session the pass ran its queries on (0: no
\* query ran).
NoPass == [passes |-> 0, now |-> 0, upstream |-> <<>>, transport |-> "up",
           queried |-> FALSE, mode |-> "none", slept |-> 0, naps |-> 0,
           fetched |-> {}, merged |-> {}, published |-> {}, handled |-> <<>>,
           redis_client |-> "unbound", connects |-> 0, sessions |-> 0,
           session_open |-> FALSE, query_session |-> 0]

Init ==
    /\ events = <<>>
    /\ mappings = <<>>
    /\ last = NoCall
    /\ calls = 0
    /\ trial = NoTrial
    /\ txn = [s \in Sessions |-> IdleTx]
    /\ query = NoQuery
    /\ bucket = NoBucket
    /\ lock = 0
    /\ pc = [t \in Threads |-> "idle"]
    /\ nap = 0
    /\ sleeps = <<>>
    /\ grants = <<>>
    /\ acquires = 0
    /\ monitor = NoPass
    /\ collector = NoCollector

\* One call of save_or_update_event(x.data, x) on the tables.  last records
\* the arguments, the merge target and its row as the lookup found it, the
\* decision, how the transaction ended and the returned event; repeat says
\* that the arguments are those of the call before.
SaveOrUpdateEvent(x) ==
    /\ trial = NoTrial
    /\ \E o \in Outcomes(events, mappings, x) :
        /\ events' = o.events
        /\ mappings' = o.mappings
        /\ last' = [x |-> x, target |-> o.target, via |-> o.via,
                    before |-> IF o.target = 0 THEN None
                               ELSE Some(events[o.target]),
                    should_update |-> o.should_update, outcome |-> o.outcome,
                    ret |-> o.ret, repeat |-> (x = last.x)]
    /\ calls' = calls + 1
    /\ UNCHANGED <<trial, txn, others>>

Next == \E x \in Calls : calls < MaxCalls /\ SaveOrUpdateEvent(x)

Spec == Init /\ [][Next]_vars

(***************************************************************************)
(* save_or_update_event in concurrent sessions.  A transaction reads       *)
(* committed rows (lines 63-81), decides (85-137) and later flushes and    *)
(* commits (139) against the rows committed by then.                       *)
(***************************************************************************)
\* Lines 60-137 in session s: lookups and decision on the committed tables.
BeginTx(s, x) ==
    /\ txn[s].stage # "read"
    /\ Essential(x)
    /\ \E tv \in Targets(events, mappings, x) :
        txn' = [txn EXCEPT ![s] =
                    [stage |-> "read", x |-> x, target |-> tv[1],
                     via |-> tv[2],
                     should_update |-> IF tv[1] = 0 THEN FALSE
                                       ELSE ShouldUpdate(x.data, events[tv[1]]),
                     existing_mapping |-> MappingsFor(mappings, x) # {}]]
    /\ calls' = calls + 1
    /\ UNCHANGED <<events, mappings, last, trial, others>>

\* The rows transaction tx writes, on top of the committed tables ev, ms.
TxEvents(ev, tx) ==
    IF tx.target = 0
    THEN Append(ev, NewEvent(tx.x.data, tx.x.source_name))
    ELSE IF tx.should_update
         THEN [ev EXCEPT ![tx.target] =
                    Merge(ev[tx.target], tx.x.data, tx.x.source_name)]
         ELSE ev

TxMappings(ev, ms, tx) ==
    IF tx.existing_mapping THEN ms
    ELSE Append(ms, NewMapping(IF tx.target = 0 THEN Len(ev) + 1
                               ELSE tx.target,
                               tx.x.source_name, tx.x.source_event_id))

\* CommitTx with a rollback that undoes the mapping insert only: the event
\* rows written before the failed commit stay.
CommitTxKeepsEventsOnRollback(s) ==
    /\ txn[s].stage = "read"
    /\ LET tx == txn[s]
           ev1 == TxEvents(events, tx)
           ms1 == TxMappings(events, mappings, tx)
       IN  IF ConstraintsHold(ev1, ms1)
           THEN /\ events' = ev1
                /\ mappings' = ms1
                /\ txn' = [txn EXCEPT ![s] =
                            [stage |-> "done", x |-> tx.x,
                             outcome |-> "committed",
                             ret |-> Some(IF tx.target = 0
                                          THEN Len(events) + 1
                                          ELSE tx.target)]]
           ELSE /\ events' = ev1
                /\ UNCHANGED mappings
                /\ \E r \in Reread(events, tx.x.data) :
                    txn' = [txn EXCEPT ![s] =
                            [stage |-> "done", x |-> tx.x,
                             outcome |-> "rolled_back", ret |-> r]]
    /\ UNCHANGED <<last, calls, trial, others>>

\* Lines 139-156 in session s: commit, or rollback and re-read by key.
CommitTx(s) ==
    /\ txn[s].stage = "read"
    /\ LET tx == txn[s]
           ev1 == TxEvents(events, tx)
           ms1 == TxMappings(events, mappings, tx)
       IN  IF ConstraintsHold(ev1, ms1)
           THEN /\ events' = ev1
                /\ mappings' = ms1
                /\ txn' = [txn EXCEPT ![s] =
                            [stage |-> "done", x |-> tx.x,
                             outcome |-> "committed",
                             ret |-> Some(IF tx.target = 0
                                          THEN Len(events) + 1
                                          ELSE tx.target)]]
           ELSE /\ UNCHANGED <<events, mappings>>
                /\ \E r \in Reread(events, tx.x.data) :
                    txn' = [txn EXCEPT ![s] =
                            [stage |-> "done", x |-> tx.x,
                             outcome |-> "rolled_back", ret |-> r]]
    /\ UNCHANGED <<last, calls, trial, others>>

NextRace ==
    \/ \E s \in Sessions, x \in NormalizedCalls :
            calls < MaxRaceCalls /\ BeginTx(s, x)
    \/ \E s \in Sessions : CommitTx(s)

SpecRace == Init /\ [][NextRace]_vars

(***************************************************************************)
(* The read-only queries of data_access.py, lines 163-200.  Instants are   *)
(* integers; the buffer is in the same unit.                               *)
(***************************************************************************)
\* Line 7 imports datetime only: the name timedelta, used on line 171, is
\* bound nowhere in data_access.py.
TimedeltaImported == FALSE

\* Lines 171-177: the filter of get_events_for_monitoring.
MonitoringRows(ev, now, buffer) ==
    {i \in DOMAIN ev :
        \/ ev[i].event_status = "inprogress"
        \/ /\ ev[i].event_status = "scheduled"
           /\ ev[i].event_timestamp[1] >= now - buffer}

\* Line 178: order_by(event_timestamp.asc()).all() over the rows S; rows
\* with equal instants come in any order.
OrderedByTimestamp(ev, S) ==
    {q \in [1..Cardinality(S) -> S] :
        \A a, b \in 1..Cardinality(S) :
            a < b => /\ q[a] # q[b]
                     /\ ev[q[a]].event_timestamp[1] <= ev[q[b]].event_timestamp[1]}

\* get_events_for_monitoring(time_buffer_minutes) at time now: evaluating
\* line 171 raises NameError before the query is built.
GetEventsForMonitoring(ev, now, buffer) ==
    IF TimedeltaImported
    THEN {[raised |-> FALSE, rows |-> q] :
            q \in OrderedByTimestamp(ev, MonitoringRows(ev, now, buffer))}
    ELSE {[raised |-> TRUE, rows |-> <<>>]}

\* Mutant of GetNextScheduledEventStartTime: ">=" for ">" on line 191.
GetNextScheduledAtOrAfterNow(ev, now) ==
    LET S == {i \in DOMAIN ev : /\ ev[i].event_status = "scheduled"
                                /\ ev[i].event_timestamp[1] >= now}
    IN  IF S = {} THEN None
        ELSE Some(CHOOSE t \in {ev[i].event_timestamp[1] : i \in S} :
                    \A i \in S : t <= ev[i].event_timestamp[1])

\* Lines 188-200: get_next_scheduled_event_start_time at time now.
GetNextScheduledEventStartTime(ev, now) ==
    LET S == {i \in DOMAIN ev : /\ ev[i].event_status = "scheduled"
                                /\ ev[i].event_timestamp[1] > now}
    IN  IF S = {} THEN None
        ELSE Some(CHOOSE t \in {ev[i].event_timestamp[1] : i \in S} :
                    \A i \in S : t <= ev[i].event_timestamp[1])

\* Matches of every status the queries tell apart, one update time each.
QueryCalls ==
    {Call([d EXCEPT !.event_status = st], "sofascore", Some(sid)) :
        d \in {e \in SofascoreEvents :
                    /\ e.last_updated_timestamp = Some(1)
                    /\ e.current_game_time = Some(0)
                    /\ e.event_status = "scheduled"},
        st \in {"inprogress", "finished"}, sid \in SourceEventIds}
    \cup
    {Call(d, "thesportsdb", Some(sid)) :
        d \in {e \in TheSportsDBEvents : e.last_updated_timestamp = Some(1)},
        sid \in SourceEventIds}

Nows == 0..MaxNow
Buffers == {0, 1}

QueryEventsForMonitoring(now, buffer) ==
    /\ \E r \in GetEventsForMonitoring(events, now, buffer) :
        query' = [op |-> "monitoring", now |-> now, buffer |-> buffer,
                  raised |-> r.raised, rows |-> r.rows]
    /\ UNCHANGED <<events, mappings, last, calls, trial, txn, bucketVars, monitor,
                   collector>>

QueryNextScheduled(now) ==
    /\ query' = [op |-> "next", now |-> now,
                 result |-> GetNextScheduledEventStartTime(events, now)]
    /\ UNCHANGED <<events, mappings, last, calls, trial, txn, bucketVars, monitor,
                   collector>>

\* The table is filled first and queried afterwards.
NextQuery ==
    \/ \E x \in QueryCalls :
            query = NoQuery /\ calls < MaxQueryCalls /\ SaveOrUpdateEvent(x)
    \/ \E now \in Nows, buffer \in Buffers : QueryEventsForMonitoring(now, buffer)
    \/ \E now \in Nows : QueryNextScheduled(now)

SpecQuery == Init /\ [][NextQuery]_vars

(***************************************************************************)
(* TokenBucketAntiBlockStrategy, anti_block.py lines 19-67.  Time is       *)
(* counted in ticks of 0.01 s.  A controller with fill_rate 1/period       *)
(* tokens per tick keeps its tokens in parts of 1/period token, so that    *)
(* one tick refills one part and one token is period parts.                *)
(***************************************************************************)
\* Line 67: the fixed 0.01 s added to every sleep, one tick.
SafetyMargin == 1

storeVars == <<events, mappings, last, calls, trial, txn, query, monitor,
              collector>>

\* Lines 25-39: __init__(capacity, fill_rate, initial_tokens).  capacity is
\* an int greater than 0, initial_tokens an int or None (None: capacity).
\* since_refill is time.time() - last_refill_time.
NewBucket(capacity, period, initial_tokens) ==
    /\ ~bucket.built
    /\ capacity > 0 /\ period > 0
    /\ bucket' = [built |-> TRUE, capacity |-> capacity, period |-> period,
                  tokens |-> IF initial_tokens = None THEN capacity * period
                             ELSE initial_tokens[1] * period,
                  since_refill |-> 0]
    /\ UNCHANGED <<lock, pc, nap, sleeps, grants, acquires, storeVars>>

Min(a, b) == IF a <= b THEN a ELSE b

\* Mutant of Refilled: min(capacity, ...) of line 48 left out.
RefilledWithoutCap(b) == b.tokens + b.since_refill

\* Mutant of Refilled: line 48 forgets the tokens the bucket already has.
RefilledForgetsBalance(b) == Min(b.capacity * b.period, b.since_refill)

\* Mutant of Refilled: line 48 caps the tokens one token above capacity.
RefilledOverCapacity(b) ==
    Min((b.capacity + 1) * b.period, b.tokens + b.since_refill)

\* Lines 45-48: the tokens after _refill_tokens.
Refilled(b) == Min(b.capacity * b.period, b.tokens + b.since_refill)

\* Mutant of TimeToWait: the 0.01 s of line 67 left out.
TimeToWaitWithoutMargin(b, tokens) == b.period - tokens

\* Mutant of TimeToWait: the sleep is the 0.01 s of line 67 alone, without
\* tokens_needed / fill_rate.
TimeToWaitMarginOnly(b, tokens) == SafetyMargin

\* Lines 64-67: tokens_needed / fill_rate + 0.01, in ticks.
TimeToWait(b, tokens) == (b.period - tokens) + SafetyMargin

\* A thread calls wait_before_request and reaches "with self.lock".
CallWait(t) ==
    /\ bucket.built
    /\ pc[t] = "idle"
    /\ pc' = [pc EXCEPT ![t] = "waiting"]
    /\ acquires' = acquires + 1
    /\ UNCHANGED <<bucket, lock, nap, sleeps, grants, storeVars>>
\* Mutant of LockAcquire: the thread enters the with block of line 55
\* whether or not another thread holds the lock.
LockAcquireWithoutLock(t) ==
    /\ pc[t] = "waiting"
    /\ lock' = t
    /\ pc' = [pc EXCEPT ![t] = "loop"]
    /\ sleeps' = <<>>
    /\ UNCHANGED <<bucket, nap, grants, acquires, storeVars>>

\* Line 55: the thread gets the lock.
LockAcquire(t) ==
    /\ pc[t] = "waiting"
    /\ lock = 0
    /\ lock' = t
    /\ pc' = [pc EXCEPT ![t] = "loop"]
    /\ sleeps' = <<>>
    /\ UNCHANGED <<bucket, nap, grants, acquires, storeVars>>

\* Lines 57-67: one pass of the loop: refill, then either consume a token,
\* leave the loop and the with block, or start the sleep.  A grant records
\* its age and the number of sleeps of the call.
Loop(t) ==
    /\ pc[t] = "loop"
    /\ LET tokens == Refilled(bucket)
       IN  IF tokens >= bucket.period
           THEN /\ bucket' = [bucket EXCEPT !.tokens = tokens - bucket.period,
                                            !.since_refill = 0]
                /\ grants' = Append(grants, [age |-> 0, naps |-> Len(sleeps)])
                /\ pc' = [pc EXCEPT ![t] = "idle"]
                /\ lock' = 0
                /\ nap' = 0
                /\ sleeps' = sleeps
           ELSE /\ bucket' = [bucket EXCEPT !.tokens = tokens,
                                            !.since_refill = 0]
                /\ nap' = TimeToWait(bucket, tokens)
                /\ sleeps' = IF Len(sleeps) < MaxNaps
                             THEN Append(sleeps, TimeToWait(bucket, tokens))
                             ELSE sleeps
                /\ pc' = [pc EXCEPT ![t] = "sleeping"]
                /\ UNCHANGED <<lock, grants>>
    /\ UNCHANGED <<acquires, storeVars>>

\* time.sleep returns once the requested time has passed.
Wake(t) ==
    /\ pc[t] = "sleeping"
    /\ nap = 0
    /\ pc' = [pc EXCEPT ![t] = "loop"]
    /\ UNCHANGED <<bucket, lock, nap, sleeps, grants, acquires, storeVars>>

\* since_refill beyond this changes nothing: the bucket is full by then.
FullAfter(b) == (b.capacity + 1) * b.period

\* One tick of time passes.  Ages beyond MaxWindow are not told apart.
Tick ==
    /\ bucket.built
    /\ bucket' = [bucket EXCEPT !.since_refill =
                        Min(bucket.since_refill + 1, FullAfter(bucket))]
    /\ nap' = IF nap > 0 THEN nap - 1 ELSE 0
    /\ grants' = [k \in DOMAIN grants |->
                    [grants[k] EXCEPT !.age = Min(grants[k].age + 1,
                                                  MaxWindow + 1)]]
    /\ UNCHANGED <<lock, pc, sleeps, acquires, storeVars>>

\* The controllers of the model: capacity 1 or 2, one token every 1, 2 or
\* 3 ticks, constructed full, empty, one token in debt or above capacity.
Capacities == {1, 2}
Periods == {1, 2, 3}
InitialTokens == {None, Some(0), Some(-1), Some(3)}

NextBucket ==
    \/ \E c \in Capacities, p \in Periods, i \in InitialTokens : NewBucket(c, p, i)
    \/ \E t \in Threads : acquires < MaxAcquires /\ CallWait(t)
    \/ \E t \in Threads : LockAcquire(t)
    \/ \E t \in Threads : Loop(t)
    \/ \E t \in Threads : Wake(t)
    \/ Tick

SpecBucket == Init /\ [][NextBucket]_vars

\* Time advances, a runnable thread runs, and the lock is fair: a thread
\* that keeps finding it free now and again gets it.
SpecBucketFair ==
    /\ SpecBucket
    /\ WF_vars(Tick)
    /\ \A t \in Threads : WF_vars(Loop(t)) /\ WF_vars(Wake(t))
    /\ \A t \in Threads : SF_vars(LockAcquire(t))

\* One caller on a controller constructed full: capacity + 1 calls, and
\* time passes only while the caller sleeps.  <<5, 100>> is capacity 5 with
\* fill_rate 1 token per second.
BurstControllers == {<<5, 100>>, <<2, 3>>, <<1, 1>>}

NextBurst ==
    \/ \E b \in BurstControllers : NewBucket(b[1], b[2], None)
    \/ bucket.built /\ acquires <= bucket.capacity /\ CallWait(1)
    \/ LockAcquire(1)
    \/ Loop(1)
    \/ Wake(1)
    \/ nap > 0 /\ Tick

SpecBurst == Init /\ [][NextBurst]_vars

(***************************************************************************)
(* monitor_live_matches, live-monitor/main.py.  One instant of the model   *)
(* is the proximity buffer, 30 minutes.                                    *)
(***************************************************************************)
ACTIVE_POLL_INTERVAL_SECONDS == 15
HIBERNATION_POLL_INTERVAL_SECONDS == 300
MATCH_PROXIMITY_BUFFER == 1
InstantSeconds == 1800

\* What the provider holds for a stored event when a pass runs: a newer
\* observation, the stored one again, or no answer.
Answers == {"newer", "stale", "fails"}

\* Whether the Redis server can be reached when a pass runs.
Transports == {"up", "down"}

\* Lines 46-75: one pass of the first "while True".  Line 47 opens a
\* session, the try block builds a DataAccess on it, the finally block
\* closes the session (line 74), and the loop starts over: it has no break,
\* no query and no sleep, so the statements from line 77 on (the Redis
\* connection, which binds redis_client, and the polling loop of lines
\* 90-191) are never reached.  The pass reads neither the provider nor Redis.
MonitorPass(now, upstream, transport) ==
    /\ monitor' = [passes |-> monitor.passes + 1, now |-> now,
                   upstream |-> upstream, transport |-> transport,
                   queried |-> FALSE, mode |-> "none", slept |-> 0,
                   naps |-> 0,
                   fetched |-> {}, merged |-> {}, published |-> {},
                   handled |-> <<>>,
                   redis_client |-> monitor.redis_client,
                   connects |-> monitor.connects,
                   sessions |-> monitor.sessions + 1,
                   session_open |-> FALSE, query_session |-> 0]
    /\ UNCHANGED <<events, mappings, last, calls, trial, txn, query,
                   bucketVars, collector>>

\* The collector fills the table, then the monitor runs.
NextMonitor ==
    \/ \E x \in QueryCalls :
            /\ monitor.passes = 0
            /\ calls < MaxMonitorCalls
            /\ SaveOrUpdateEvent(x)
    \/ \E now \in Nows, upstream \in [DOMAIN events -> Answers],
          transport \in Transports :
            monitor.passes < MaxPasses /\ MonitorPass(now, upstream, transport)

SpecMonitor == Init /\ [][NextMonitor]_vars
(***************************************************************************)
(* collect_and_save_data, data-collector/main.py, with the requests of     *)
(* SofascoreAdapter and TheSportsDBAdapter.  steps lists, in order, every  *)
(* returned wait_before_request ("acquire", with the provider whose        *)
(* controller it was called on) and every requests.get ("request").        *)
(***************************************************************************)
Step(op, provider) == [op |-> op, provider |-> provider]

\* Lines 33-46: the two controllers, the adapters, the normalizer and the
\* session.  TheSportsDBAdapter() raises ValueError without an API key
\* (thesportsdb_adapter.py 10-13), before the try block of line 48.
CollectorStart(has_key) ==
    /\ collector.pc = "idle"
    /\ collector' = [collector EXCEPT
                        !.pc = IF has_key THEN "today" ELSE "failed"]
    /\ UNCHANGED <<events, mappings, last, calls, trial, txn, query,
                   bucketVars, monitor>>

\* SofascoreAdapter._make_api_request, called for today and for tomorrow by
\* get_todays_and_tomorrows_matches_events (lines 91-95): line 44 waits on
\* the controller the adapter was built with, line 48 sends the request.
MakeApiRequest ==
    /\ collector.pc \in {"today", "tomorrow"}
    /\ collector' = [collector EXCEPT
                        !.pc = IF collector.pc = "today" THEN "tomorrow"
                               ELSE "sofascore_events",
                        !.steps = collector.steps
                                    \o <<Step("acquire", "sofascore"),
                                         Step("request", "sofascore")>>]
    /\ UNCHANGED <<events, mappings, last, calls, trial, txn, query,
                   bucketVars, monitor>>

\* Lines 57-60 and 77-85: one event of the provider's answer, normalized
\* and saved.
SaveCollected(x) ==
    /\ \/ collector.pc = "sofascore_events" /\ x.source_name = "sofascore"
       \/ collector.pc = "thesportsdb_events" /\ x.source_name = "thesportsdb"
    /\ SaveOrUpdateEvent(x)

\* Lines 66-71: the Sofascore events are done.
SofascoreDone ==
    /\ collector.pc = "sofascore_events"
    /\ collector' = [collector EXCEPT !.pc = "thesportsdb"]
    /\ UNCHANGED <<events, mappings, last, calls, trial, txn, query,
                   bucketVars, monitor>>

\* TheSportsDBAdapter.get_events_by_league_id (thesportsdb_adapter.py
\* 28-49): requests.get on line 42.  The adapter holds no controller, and
\* thesportsdb_anti_block of line 34 is used nowhere.
GetEventsByLeagueId ==
    /\ collector.pc = "thesportsdb"
    /\ collector' = [collector EXCEPT
                        !.pc = "thesportsdb_events",
                        !.steps = Append(collector.steps,
                                         Step("request", "thesportsdb"))]
    /\ UNCHANGED <<events, mappings, last, calls, trial, txn, query,
                   bucketVars, monitor>>

\* Lines 93-100: the session is closed and the function returns.
CollectorFinish ==
    /\ collector.pc = "thesportsdb_events"
    /\ collector' = [collector EXCEPT !.pc = "done"]
    /\ UNCHANGED <<events, mappings, last, calls, trial, txn, query,
                   bucketVars, monitor>>

NextCollect ==
    \/ \E has_key \in BOOLEAN : CollectorStart(has_key)
    \/ MakeApiRequest
    \/ \E x \in NormalizedCalls : calls < MaxCalls /\ SaveCollected(x)
    \/ SofascoreDone
    \/ GetEventsByLeagueId
    \/ CollectorFinish

SpecCollect == Init /\ [][NextCollect]_vars

\* Calls with complete, incomplete and partial arguments.
NextPartial ==
    \E x \in Calls \cup PartialCalls :
        calls < MaxPartialCalls /\ SaveOrUpdateEvent(x)

SpecPartial == Init /\ [][NextPartial]_vars

\* The event a call with outcome o worked on: its merge target, or the row
\* it inserted into the table ev.
EventOf(ev, o) == IF o.target = 0 THEN Len(ev) + 1 ELSE o.target

\* Every result of save_or_update_event(x) followed by save_or_update_event(y)
\* on the tables ev, ms: the final tables and, for either call, the merge
\* target (0 when the call created its event) and the event it worked on.
InOrder(ev, ms, x, y) ==
    UNION {
        {[events |-> o2.events, mappings |-> o2.mappings,
          first_target |-> o1.target, first_event |-> EventOf(ev, o1),
          second_target |-> o2.target,
          second_event |-> EventOf(o1.events, o2)] :
            o2 \in Outcomes(o1.events, o1.mappings, y)} :
        o1 \in Outcomes(ev, ms, x)}

\* Observations a and b are applied to copies of the current tables, once as
\* a then b and once as b then a.  b is not older than a, and the two share
\* the provider's event id or the dedup key.
Order(a, b) ==
    /\ trial = NoTrial
    /\ a # b
    /\ a.data.last_updated_timestamp[1] <= b.data.last_updated_timestamp[1]
    /\ \/ SameKey(a.data, b.data)
       \/ /\ a.source_name = b.source_name
          /\ a.source_event_id = b.source_event_id
    /\ \E ab \in InOrder(events, mappings, a, b) :
       \E ba \in InOrder(events, mappings, b, a) :
            trial' = [kind |-> "order", a |-> a, b |-> b, ab |-> ab, ba |-> ba]
    /\ calls' = calls + 2
    /\ UNCHANGED <<events, mappings, last, txn, others>>

NextTrial ==
    \/ \E x \in NormalizedCalls : calls + 2 < MaxCalls /\ SaveOrUpdateEvent(x)
    \/ \E a, b \in NormalizedCalls : calls + 2 <= MaxCalls /\ Order(a, b)

SpecTrial == Init /\ [][NextTrial]_vars

\* The same calls restricted to TheSportsDB fixtures without a league id,
\* reported under three provider event ids, in longer behaviours.
NullLeagueCalls ==
    {Call(d, "thesportsdb", Some(sid)) :
        d \in {e \in TheSportsDBEvents : e.league_id = None},
        sid \in SourceEventIds \cup {"3"}}

NextNullLeague ==
    \E x \in NullLeagueCalls : calls < MaxNullCalls /\ SaveOrUpdateEvent(x)

SpecNullLeague == Init /\ [][NextNullLeague]_vars

(***************************************************************************)
(* Properties of the tables after sequences of calls.                   *)
(***************************************************************************)
\* The last call passed the guard of line 54 and found an existing target.
MergedIntoExisting == last.via \in {"mapping", "key"}

\* Row e holds every value of the incoming record d.
HoldsIncoming(e, d) == \A c \in DOMAIN d : e[c] = d[c]

\* C1: after any sequence of save_or_update_event calls, no two rows of the
\* events table share (event_timestamp, home_team_name, away_team_name,
\* league_id), a missing league_id included.
C1_DedupInvariant ==
    \A i, j \in DOMAIN events :
        (/\ events[i].event_timestamp = events[j].event_timestamp
         /\ events[i].home_team_name = events[j].home_team_name
         /\ events[i].away_team_name = events[j].away_team_name
         /\ events[i].league_id = events[j].league_id) => i = j

\* C2: in every reachable state no two mapping rows share (source_name,
\* source_event_id) and no event has two mapping rows of one source_name.
C2_MappingUniqueness ==
    \A i, j \in DOMAIN mappings :
        i # j =>
            /\ ~(/\ mappings[i].source_name = mappings[j].source_name
                 /\ mappings[i].source_event_id = mappings[j].source_event_id)
            /\ ~(/\ mappings[i].event_id = mappings[j].event_id
                 /\ mappings[i].source_name = mappings[j].source_name)

\* C2 witness: a call found its target by the dedup key while the target
\* already had a mapping of the same provider under another id; the second
\* mapping row was refused.
C2_Witness ==
    /\ last.via = "key"
    /\ last.outcome = "rolled_back"
    /\ \E i \in DOMAIN mappings :
        /\ mappings[i].event_id = last.target
        /\ mappings[i].source_name = last.x.source_name
        /\ mappings[i].source_event_id # last.x.source_event_id

\* The call that just returned passed the guard of line 54.
CallAttempted == last'.outcome \in {"committed", "rolled_back"}

\* The call that just returned appended exactly one mapping row, for its
\* (source_name, source_event_id), pointing to event id.
MappingAdded(id) ==
    /\ Len(mappings') = Len(mappings) + 1
    /\ \A i \in DOMAIN mappings : mappings'[i] = mappings[i]
    /\ mappings'[Len(mappings')] =
            [event_id |-> id, source_name |-> last'.x.source_name,
             source_event_id |-> last'.x.source_event_id]

\* The mapping rows of the call's (source_name, source_event_id) and the
\* events with the call's dedup key, as they were when the call started.
PriorMappings ==
    {i \in DOMAIN mappings :
        /\ mappings[i].source_name = last'.x.source_name
        /\ mappings[i].source_event_id = last'.x.source_event_id}

PriorKeyMatches ==
    {i \in DOMAIN events :
        /\ events[i].event_timestamp = last'.x.data.event_timestamp
        /\ events[i].home_team_name = last'.x.data.home_team_name
        /\ events[i].away_team_name = last'.x.data.away_team_name
        /\ events[i].league_id = last'.x.data.league_id}

\* The first two steps of the resolution order, common to C3 as stated and
\* as amended: a mapping decides alone; without one the dedup key decides.
ResolvedByMapping ==
    /\ last'.via = "mapping"
    /\ \E i \in PriorMappings : last'.target = mappings[i].event_id

ResolvedByKey ==
    /\ last'.via = "key"
    /\ last'.target \in PriorKeyMatches

CreatedNew ==
    /\ last'.via = "new"
    /\ Len(events') = Len(events) + 1
    /\ \A i \in DOMAIN events : events'[i] = events[i]
    /\ HoldsIncoming(events'[Len(events')], last'.x.data)

\* C3 as stated: a mapping for (provider, provider_event_id) makes its event
\* the merge target; otherwise an event with the incoming dedup key is the
\* target and a new mapping pointing to it is created; otherwise a new event
\* is created.
C3_Stated ==
    [][CallAttempted =>
        IF PriorMappings # {} THEN ResolvedByMapping
        ELSE IF PriorKeyMatches # {}
             THEN ResolvedByKey /\ MappingAdded(last'.target)
             ELSE CreatedNew]_vars

\* C3 as amended: as stated, except that in the second case the new mapping
\* is created only if the target has no mapping of the same provider yet;
\* if it has one, no mapping is created.
C3_ResolutionOrder ==
    [][CallAttempted =>
        IF PriorMappings # {} THEN ResolvedByMapping
        ELSE IF PriorKeyMatches # {}
             THEN /\ ResolvedByKey
                  /\ IF \E i \in DOMAIN mappings :
                            /\ mappings[i].event_id = last'.target
                            /\ mappings[i].source_name = last'.x.source_name
                     THEN mappings' = mappings
                     ELSE MappingAdded(last'.target)
             ELSE CreatedNew]_vars

\* C3 witness: the target was found by the dedup key and the provider's
\* first mapping to it was committed.
C3_Witness ==
    /\ last.via = "key"
    /\ last.outcome = "committed"
    /\ mappings[Len(mappings)] =
            [event_id |-> last.target, source_name |-> last.x.source_name,
             source_event_id |-> last.x.source_event_id]

\* C4: when the merge target already existed, an incoming
\* last_updated_timestamp greater than the target's is accepted; a smaller
\* one is discarded, the target row is left as it was and the call returns
\* the target.
C4_TimestampAcceptance ==
    MergedIntoExisting =>
        LET old == last.before[1]
            d == last.x.data
        IN  /\ d.last_updated_timestamp[1] > old.last_updated_timestamp[1]
                => last.should_update
            /\ d.last_updated_timestamp[1] < old.last_updated_timestamp[1]
                => /\ ~last.should_update
                   /\ events[last.target] = old
                   /\ last.ret = Some(last.target)

\* C5: when the incoming last_updated_timestamp equals the target's, the
\* observation is accepted if and only if the incoming or the stored status
\* is inprogress and the incoming current_game_time is present and greater
\* than the stored one (a missing stored value is lower than any present
\* one); otherwise the target row is left as it was.
C5_TieBreak ==
    MergedIntoExisting =>
        LET old == last.before[1]
            d == last.x.data
            live == d.event_status = "inprogress"
                        \/ old.event_status = "inprogress"
            ahead == /\ d.current_game_time # None
                     /\ \/ old.current_game_time = None
                        \/ d.current_game_time[1] > old.current_game_time[1]
        IN  d.last_updated_timestamp = old.last_updated_timestamp =>
                /\ last.should_update <=> (live /\ ahead)
                /\ ~(live /\ ahead) => events[last.target] = old

\* C5 witness: an observation with the target's timestamp won the tie-break
\* against a stored game time and was written.
C5_Witness ==
    /\ MergedIntoExisting
    /\ last.x.data.last_updated_timestamp
            = last.before[1].last_updated_timestamp
    /\ last.before[1].current_game_time # None
    /\ last.should_update
    /\ last.outcome = "committed"
    /\ HoldsIncoming(events[last.target], last.x.data)

\* C6: when an existing target satisfies the acceptance policy, the stored
\* target holds, once the call has returned, every value of the incoming
\* record, the incoming provider as last_data_source and the incoming
\* last_updated_timestamp.
C6_EffectOfAcceptance ==
    (MergedIntoExisting /\ last.should_update) =>
        /\ HoldsIncoming(events[last.target], last.x.data)
        /\ events[last.target].last_data_source = Some(last.x.source_name)
        /\ events[last.target].last_updated_timestamp
                = last.x.data.last_updated_timestamp

\* C9: a call with exactly the arguments of the call before it leaves both
\* tables as the first application left them.
C9_IdempotentRemerge ==
    [][last'.repeat => (events' = events /\ mappings' = mappings)]_vars

\* C9 witness: an observation that created or updated its event was applied
\* again, resolved through its mapping and discarded.
C9_Witness ==
    /\ last.repeat
    /\ last.via = "mapping"
    /\ last.outcome = "committed"
    /\ ~last.should_update
    /\ HoldsIncoming(events[last.target], last.x.data)

(***************************************************************************)
(* Properties of two observations applied in both orders (SpecTrial).   *)
(***************************************************************************)
Ordered == trial.kind = "order"

\* Both observations of the trial resolve to one event, in either order.
SameTarget ==
    /\ trial.ab.first_event = trial.ab.second_event
    /\ trial.ba.first_event = trial.ba.second_event

\* The observation applied first, in either order, creates the event or
\* finds a target older than itself.
TargetNotNewer ==
    /\ trial.ab.first_target # 0 =>
        events[trial.ab.first_target].last_updated_timestamp[1]
            < trial.a.data.last_updated_timestamp[1]
    /\ trial.ba.first_target # 0 =>
        events[trial.ba.first_target].last_updated_timestamp[1]
            < trial.b.data.last_updated_timestamp[1]

\* The event both observations resolved to ends with b's values, in
\* either order.
EndsWithB ==
    /\ HoldsIncoming(trial.ab.events[trial.ab.second_event], trial.b.data)
    /\ trial.ab.events[trial.ab.second_event].last_data_source
            = Some(trial.b.source_name)
    /\ HoldsIncoming(trial.ba.events[trial.ba.first_event], trial.b.data)
    /\ trial.ba.events[trial.ba.first_event].last_data_source
            = Some(trial.b.source_name)

\* C7: for observations a, b of the same target with a older than b, the
\* store ends with b's values whether a or b is applied first.
C7_MergeMonotonicity ==
    (/\ Ordered
     /\ trial.a.data.last_updated_timestamp[1]
            < trial.b.data.last_updated_timestamp[1]
     /\ SameTarget
     /\ TargetNotNewer) => EndsWithB

\* C8: for observations a, b of the same target with equal timestamps, both
\* inprogress, b's game time greater than a's, the store ends with b's
\* values whether a or b is applied first.
C8_LiveTieBreak ==
    (/\ Ordered
     /\ trial.a.data.last_updated_timestamp
            = trial.b.data.last_updated_timestamp
     /\ trial.a.data.event_status = "inprogress"
     /\ trial.b.data.event_status = "inprogress"
     /\ trial.a.data.current_game_time # None
     /\ trial.b.data.current_game_time # None
     /\ trial.b.data.current_game_time[1] > trial.a.data.current_game_time[1]
     /\ SameTarget
     /\ TargetNotNewer) => EndsWithB

\* The events of table ev with the dedup key of record d.
WithKey(ev, d) ==
    {i \in DOMAIN ev :
        /\ ev[i].event_timestamp = d.event_timestamp
        /\ ev[i].home_team_name = d.home_team_name
        /\ ev[i].away_team_name = d.away_team_name
        /\ ev[i].league_id = d.league_id}

\* Two distinct providers report one match, unknown to the store so far,
\* with different timestamps (b's is the greater).
TwoProviders ==
    /\ Ordered
    /\ trial.a.source_name # trial.b.source_name
    /\ trial.a.data.event_timestamp = trial.b.data.event_timestamp
    /\ trial.a.data.home_team_name = trial.b.data.home_team_name
    /\ trial.a.data.away_team_name = trial.b.data.away_team_name
    /\ trial.a.data.league_id = trial.b.data.league_id
    /\ trial.a.data.last_updated_timestamp[1]
            < trial.b.data.last_updated_timestamp[1]
    /\ WithKey(events, trial.a.data) = {}
    /\ \A i \in DOMAIN mappings :
        /\ ~(/\ mappings[i].source_name = trial.a.source_name
             /\ mappings[i].source_event_id = trial.a.source_event_id)
        /\ ~(/\ mappings[i].source_name = trial.b.source_name
             /\ mappings[i].source_event_id = trial.b.source_event_id)

\* Tables r hold exactly one event with the trial's dedup key, referenced by
\* exactly two mappings, one of either provider, and last written by b.
Reconciled(r) ==
    /\ Cardinality(WithKey(r.events, trial.a.data)) = 1
    /\ \A e \in WithKey(r.events, trial.a.data) :
        LET refs == {i \in DOMAIN r.mappings : r.mappings[i].event_id = e}
        IN  /\ Cardinality(refs) = 2
            /\ {r.mappings[i].source_name : i \in refs}
                    = {trial.a.source_name, trial.b.source_name}
            /\ r.events[e].last_data_source = Some(trial.b.source_name)

\* C10: two providers, same dedup key, different timestamps: in either
\* order exactly one event exists for the key, it has exactly two mappings
\* (one per provider) and its last_data_source is the provider with the
\* greater timestamp.
C10_TwoProviderReconciliation ==
    TwoProviders => (Reconciled(trial.ab) /\ Reconciled(trial.ba))

\* C10 witness: such a trial was made on tables that already held another
\* event, and both orders ended reconciled.
C10_Witness ==
    /\ TwoProviders
    /\ Len(events) > 0
    /\ Reconciled(trial.ab)
    /\ Reconciled(trial.ba)

\* The record of the call that just returned lacks a required field: event
\* name, sport, a team name or the start instant.
MissingRequired ==
    \/ last'.x.data.event_name = None
    \/ last'.x.data.sport_name = None
    \/ last'.x.data.home_team_name = None
    \/ last'.x.data.away_team_name = None
    \/ last'.x.data.event_timestamp = None

\* C11: a call whose record lacks a required field fails (it returns no
\* event) and leaves both tables as they were; a call whose record has all
\* of them (with its provider pair and timestamp) is not rejected by the
\* validation.
C11_Validation ==
    [][IF MissingRequired
       THEN /\ last'.ret = None
            /\ events' = events
            /\ mappings' = mappings
       ELSE (/\ last'.x.source_event_id # None
             /\ last'.x.data.last_updated_timestamp # None)
                => last'.outcome # "invalid"]_vars

\* C12: with calls running concurrently in separate transactions, a call
\* that hits a uniqueness violation returns an event that exists, never
\* nothing, and no two events hold the same dedup key, whatever the
\* interleaving.
C12_RaceSafeUpsert ==
    /\ \A s \in Sessions :
        (txn[s].stage = "done" /\ txn[s].outcome = "rolled_back") =>
            (txn[s].ret # None /\ txn[s].ret[1] \in DOMAIN events)
    /\ \A i, j \in DOMAIN events :
        (/\ events[i].event_timestamp = events[j].event_timestamp
         /\ events[i].home_team_name = events[j].home_team_name
         /\ events[i].away_team_name = events[j].away_team_name
         /\ events[i].league_id = events[j].league_id) => i = j

\* C13: a call that finds neither a mapping for its provider pair nor an
\* event with its dedup key commits: it appends exactly one event holding
\* the incoming fields and exactly one mapping pointing to it, and returns
\* that event.
C13_Creation ==
    [][(CallAttempted /\ PriorMappings = {} /\ PriorKeyMatches = {}) =>
        /\ last'.outcome = "committed"
        /\ CreatedNew
        /\ MappingAdded(Len(events'))
        /\ last'.ret = Some(Len(events'))]_vars

\* C13 witness: an event was created next to an existing one, with its
\* mapping, and returned.
C13_Witness ==
    /\ last.via = "new"
    /\ last.outcome = "committed"
    /\ Len(events) >= 2
    /\ last.ret = Some(Len(events))
    /\ HoldsIncoming(events[Len(events)], last.x.data)
    /\ mappings[Len(mappings)] =
            [event_id |-> Len(events), source_name |-> last.x.source_name,
             source_event_id |-> last.x.source_event_id]

\* C14: the monitoring query returns every inprogress event, every scheduled
\* event starting between now and now + buffer, no scheduled event starting
\* later than now + buffer and no event of another status, ordered by start
\* instant ascending.
C14_EventsNeedingAttention ==
    query.op = "monitoring" =>
        /\ ~query.raised
        /\ \A i \in DOMAIN events :
            LET returned == \E k \in DOMAIN query.rows : query.rows[k] = i
                starts == events[i].event_timestamp[1]
            IN  /\ events[i].event_status = "inprogress" => returned
                /\ (/\ events[i].event_status = "scheduled"
                     /\ query.now <= starts
                     /\ starts <= query.now + query.buffer) => returned
                /\ (/\ events[i].event_status = "scheduled"
                     /\ starts > query.now + query.buffer) => ~returned
                /\ events[i].event_status \notin {"inprogress", "scheduled"}
                        => ~returned
        /\ \A a, b \in DOMAIN query.rows :
            a < b => events[query.rows[a]].event_timestamp[1]
                        <= events[query.rows[b]].event_timestamp[1]

\* The start instants of the scheduled events later than the query's now.
FutureScheduledStarts ==
    {events[i].event_timestamp[1] : i \in
        {j \in DOMAIN events : /\ events[j].event_status = "scheduled"
                               /\ events[j].event_timestamp[1] > query.now}}

\* C15: the next-scheduled query returns the minimum start instant of the
\* scheduled events starting strictly later than now, and nothing exactly
\* when there is no such event.
C15_NextScheduledStart ==
    query.op = "next" =>
        /\ query.result = None <=> FutureScheduledStarts = {}
        /\ query.result # None =>
            /\ query.result[1] \in FutureScheduledStarts
            /\ \A t \in FutureScheduledStarts : query.result[1] <= t

\* C15 witness: the query returned the later of two scheduled starts
\* because the earlier one is not after now, beside an event that is not
\* scheduled.
C15_Witness ==
    /\ query.op = "next"
    /\ query.result = Some(2)
    /\ \E i \in DOMAIN events : /\ events[i].event_status = "scheduled"
                                 /\ events[i].event_timestamp[1] = query.now
    /\ \E i \in DOMAIN events : events[i].event_status # "scheduled"

C17_Conservation ==
    bucket.built =>
        \A w \in 0..MaxWindow :
            Cardinality({k \in DOMAIN grants : grants[k].age <= w})
                    * bucket.period
                <= bucket.capacity * bucket.period + w

\* C17 witness: a window holds exactly as many grants as the bound allows,
\* more than the capacity.
C17_Witness ==
    /\ bucket.built
    /\ \E w \in 1..MaxWindow :
        /\ Cardinality({k \in DOMAIN grants : grants[k].age <= w})
                * bucket.period = bucket.capacity * bucket.period + w
        /\ Cardinality({k \in DOMAIN grants : grants[k].age <= w})
                > bucket.capacity

\* C18: on a full controller of capacity c, with no time passing between
\* calls, the first c calls return without sleeping and call c + 1 sleeps
\* once, for one token's refill time plus the safety margin; with c = 5
\* and one token per second that is 101 ticks of 0.01 s.
C18_BurstThenWait ==
    \A k \in DOMAIN grants :
        /\ k <= bucket.capacity => grants[k].naps = 0
        /\ k = bucket.capacity + 1 =>
            /\ grants[k].naps = 1
            /\ sleeps = <<bucket.period + SafetyMargin>>
            /\ (bucket.capacity = 5 /\ bucket.period = 100)
                    => sleeps = <<101>>

\* C18 witness: the sixth call on the controller of capacity 5 and one
\* token per second has returned.
C18_Witness ==
    /\ bucket.built
    /\ bucket.capacity = 5
    /\ bucket.period = 100
    /\ Len(grants) = 6
    /\ grants[6].naps = 1

\* C19: every pass of the monitor queries the store; with an inprogress
\* event in the store the pass is Active and sleeps the active interval,
\* with an empty store it is Hibernating.
C19_SchedulerState ==
    monitor.passes > 0 =>
        /\ monitor.queried
        /\ (\E i \in DOMAIN events : events[i].event_status = "inprogress")
                => /\ monitor.mode = "Active"
                   /\ monitor.slept = ACTIVE_POLL_INTERVAL_SECONDS
        /\ events = <<>> => monitor.mode = "Hibernating"

\* Nothing in the store needs attention at the time of the last pass, a
\* next scheduled start exists and the buffer before it is still ahead.
HibernatingBeforeNextStart ==
    /\ monitor.passes > 0
    /\ \A i \in DOMAIN events :
        \/ events[i].event_status = "finished"
        \/ /\ events[i].event_status = "scheduled"
           /\ events[i].event_timestamp[1] > monitor.now + MATCH_PROXIMITY_BUFFER
    /\ GetNextScheduledEventStartTime(events, monitor.now) # None
    /\ GetNextScheduledEventStartTime(events, monitor.now)[1]
            - MATCH_PROXIMITY_BUFFER > monitor.now

\* C20: in such a pass the monitor sleeps min(wake_at - now, hibernation
\* interval), wake_at being the next start minus the proximity buffer.
C20_HibernationWakeBound ==
    HibernatingBeforeNextStart =>
        monitor.slept =
            Min((GetNextScheduledEventStartTime(events, monitor.now)[1]
                    - MATCH_PROXIMITY_BUFFER - monitor.now) * InstantSeconds,
                HIBERNATION_POLL_INTERVAL_SECONDS)

\* C30: every pass of the loop of wait_before_request first brings tokens
\* to min(capacity, tokens + elapsed * fill_rate); it deducts a token only
\* when that is at least one token, deducts exactly one token with each
\* grant, and leaves tokens between 0 and capacity after a deduction.
C30_TokenBounds ==
    [][\A t \in Threads :
        (pc[t] = "loop" /\ pc'[t] # "loop") =>
            LET refilled == Min(bucket.capacity * bucket.period,
                                bucket.tokens + bucket.since_refill)
            IN  /\ bucket'.tokens <= bucket.capacity * bucket.period
                /\ IF Len(grants') > Len(grants)
                   THEN /\ refilled >= bucket.period
                        /\ bucket'.tokens = refilled - bucket.period
                        /\ bucket'.tokens >= 0
                        /\ Len(grants') = Len(grants) + 1
                   ELSE /\ refilled < bucket.period
                        /\ bucket'.tokens = refilled
                        /\ pc'[t] = "sleeping"]_vars

\* Two grants in a row have emptied a controller of capacity 2.
C30_Witness ==
    /\ bucket.built
    /\ bucket.capacity = 2
    /\ bucket.period = 3
    /\ Len(grants) = 2
    /\ grants[1].age = 0
    /\ bucket.tokens = 0

\* C29: no call of save_or_update_event, committed or rolled back, and no
\* query removes a row of events or of mappings, and a mapping row, once
\* written, keeps its provider name, provider event id and event id.
C29_StoreGrowthOnly ==
    [][/\ Len(events') >= Len(events)
       /\ Len(mappings') >= Len(mappings)
       /\ \A i \in DOMAIN mappings :
            /\ mappings'[i].source_name = mappings[i].source_name
            /\ mappings'[i].source_event_id = mappings[i].source_event_id
            /\ mappings'[i].event_id = mappings[i].event_id]_vars

\* A call was rolled back on a store that already held two mappings, after
\* an accepted overwrite had been prepared.
C29_Witness ==
    /\ last.outcome = "rolled_back"
    /\ last.should_update
    /\ Len(mappings) = 2
    /\ Len(events) >= 1

\* C28: every request sent to a provider comes right after a returned
\* wait_before_request on the controller of that same provider.
C28_AdmissionGating ==
    \A i \in DOMAIN collector.steps :
        collector.steps[i].op = "request" =>
            /\ i > 1
            /\ collector.steps[i - 1]
                    = Step("acquire", collector.steps[i].provider)

\* The stored events that need attention at the time of the last pass:
\* inprogress, or scheduled and starting within the proximity buffer.
AttentionList ==
    {i \in DOMAIN events :
        \/ events[i].event_status = "inprogress"
        \/ /\ events[i].event_status = "scheduled"
           /\ monitor.now <= events[i].event_timestamp[1]
           /\ events[i].event_timestamp[1] <= monitor.now + MATCH_PROXIMITY_BUFFER}

\* C21: a pass that finds nothing needing attention sleeps a positive time,
\* and sleeps the hibernation interval when there is no future scheduled
\* event or when the next start minus the proximity buffer is not ahead.
C21_HibernationFallback ==
    (monitor.passes > 0 /\ AttentionList = {}) =>
        LET next == GetNextScheduledEventStartTime(events, monitor.now)
        IN  /\ monitor.slept > 0
            /\ (\/ next = None
                \/ next[1] - MATCH_PROXIMITY_BUFFER <= monitor.now)
                    => monitor.slept = HIBERNATION_POLL_INTERVAL_SECONDS

\* C22: once a stored scheduled event has entered its proximity window, a
\* pass of the monitor has run the attention query and is Active.
C22_TimelyWakeUp ==
    (/\ monitor.passes > 0
     /\ \E i \in DOMAIN events :
            /\ events[i].event_status = "scheduled"
            /\ events[i].event_timestamp[1] - MATCH_PROXIMITY_BUFFER <= monitor.now
            /\ monitor.now <= events[i].event_timestamp[1])
        => /\ monitor.queried
           /\ monitor.mode = "Active"

\* C23: with Redis reachable, a pass publishes an event of the attention
\* list exactly when the provider's observation of it changed the stored
\* record, and publishes nothing for an observation the store discards.
C23_PublishOnlyOnAcceptedMerge ==
    (monitor.passes > 0 /\ monitor.transport = "up") =>
        \A i \in AttentionList :
            i \in monitor.published <=> monitor.upstream[i] = "newer"

\* C24: when the provider gives no answer for one event of the attention
\* list, the pass neither merges nor publishes that event, still fetches
\* every other event of the list and ends with the active sleep.
C24_PerEventFailureIsolation ==
    monitor.passes > 0 =>
        \A i \in AttentionList :
            monitor.upstream[i] = "fails" =>
                /\ i \notin monitor.merged
                /\ i \notin monitor.published
                /\ \A j \in AttentionList \ {i} : j \in monitor.fetched
                /\ monitor.slept = ACTIVE_POLL_INTERVAL_SECONDS

\* C25: with Redis unreachable, a pass still fetches every event of the
\* attention list the provider answers for and merges every newer
\* observation into the store.
C25_PublishFailureIsolation ==
    (monitor.passes > 0 /\ monitor.transport = "down") =>
        \A i \in AttentionList :
            /\ monitor.upstream[i] # "fails" => i \in monitor.fetched
            /\ monitor.upstream[i] = "newer" => i \in monitor.merged

\* C26: the monitor does not go through two passes without a connected
\* Redis client and without having tried to connect.
C26_TransportReconnect ==
    (monitor.passes >= 2 /\ monitor.redis_client # "connected") =>
        monitor.connects > 0

\* The threads inside the with block of wait_before_request.
InsideLock == {t \in Threads : pc[t] \in {"loop", "sleeping"}}

\* C31: at most one thread at a time is inside the refill-check-deduct
\* sequence and it holds the lock; tokens and last_refill_time change only
\* in a step of the thread holding the lock, and such a step grants at most
\* one token, to that thread alone.
C31_LimiterMutualExclusion ==
    /\ [](/\ Cardinality(InsideLock) <= 1
          /\ \A t \in InsideLock : lock = t)
    /\ [][(/\ bucket.built
           /\ \/ bucket'.tokens # bucket.tokens
              \/ bucket'.since_refill < bucket.since_refill
              \/ Len(grants') # Len(grants))
            => /\ lock # 0
               /\ pc[lock] = "loop"
               /\ \A t \in Threads \ {lock} : pc'[t] = pc[t]
               /\ Len(grants') <= Len(grants) + 1
               /\ Len(grants') = Len(grants) + 1
                    => bucket'.tokens = Refilled(bucket) - bucket.period]_vars

\* One thread sleeps inside the with block while the other waits for the
\* lock, after a first grant.
C31_Witness ==
    /\ \E t \in Threads : pc[t] = "sleeping" /\ lock = t
    /\ \E t \in Threads : pc[t] = "waiting"
    /\ Len(grants) >= 1

\* C32: a thread that sleeps for its deficit does not hold the lock, so
\* that another thread can run refill-check-deduct meanwhile.
C32_SleepOutsideLock ==
    \A t \in Threads : pc[t] = "sleeping" => lock # t

\* C40: a call of wait_before_request sleeps at most once: it starts a
\* sleep only when it has not slept before, the sleep lasts the deficit
\* divided by the fill rate plus the safety margin, and every grant comes
\* after at most one sleep, also while another caller is waiting.
C40_SingleWaitSuffices ==
    /\ [](\A k \in DOMAIN grants : grants[k].naps <= 1)
    /\ [][\A t \in Threads :
            (pc[t] = "loop" /\ pc'[t] = "sleeping") =>
                /\ sleeps = <<>>
                /\ nap' = (bucket.period
                            - Min(bucket.capacity * bucket.period,
                                  bucket.tokens + bucket.since_refill))
                          + SafetyMargin]_vars

\* A call has just been granted after one sleep while the other thread
\* waits for the lock.
C40_Witness ==
    /\ grants # <<>>
    /\ grants[Len(grants)].naps = 1
    /\ grants[Len(grants)].age = 0
    /\ \E t \in Threads : pc[t] = "waiting"

\* C36: no step lowers the last_updated_timestamp of a stored event, and a
\* step that changes an event while leaving its last_updated_timestamp
\* equal leaves it a current_game_time that is greater than before, or
\* present where it was missing.
C36_VersionMonotonicity ==
    [][\A i \in DOMAIN events :
        /\ events'[i].last_updated_timestamp[1]
                >= events[i].last_updated_timestamp[1]
        /\ (/\ events'[i] # events[i]
            /\ events'[i].last_updated_timestamp
                    = events[i].last_updated_timestamp)
            => /\ events'[i].current_game_time # None
               /\ \/ events[i].current_game_time = None
                  \/ events'[i].current_game_time[1]
                        > events[i].current_game_time[1]]_vars

\* The last call was accepted on the tie-break: its timestamp equals the
\* one the target had, and the target's row changed.
C36_Witness ==
    /\ last.outcome = "committed"
    /\ last.should_update
    /\ last.before # None
    /\ last.before[1].last_updated_timestamp = last.x.data.last_updated_timestamp
    /\ events[last.target] # last.before[1]

\* C37: in every committed state each event has a mapping, each mapping
\* points to a stored event, and the provider in an event's
\* last_data_source has a mapping that points to the event.
C37_SourceProvenance ==
    /\ \A i \in DOMAIN events :
        /\ \E k \in DOMAIN mappings : mappings[k].event_id = i
        /\ \E k \in DOMAIN mappings :
            /\ mappings[k].event_id = i
            /\ Some(mappings[k].source_name) = events[i].last_data_source
    /\ \A k \in DOMAIN mappings : mappings[k].event_id \in DOMAIN events

\* An event created by one provider was last overwritten by the other,
\* which reached it through the dedup key.
C37_Witness ==
    /\ last.outcome = "committed"
    /\ last.via = "key"
    /\ last.should_update
    /\ last.before[1].last_data_source # events[last.target].last_data_source

\* The call that just returned found its target by the dedup key and its
\* observation was discarded.
DiscardedByKey ==
    /\ CallAttempted
    /\ last'.via = "key"
    /\ ~last'.should_update

\* C38 as stated: such a call commits a new mapping for its (source_name,
\* source_event_id) pointing to the target and leaves every event as it was.
C38_Stated ==
    [][DiscardedByKey =>
        /\ last'.outcome = "committed"
        /\ MappingAdded(last'.target)
        /\ events' = events]_vars

\* C38 as amended: such a call leaves every event as it was; it commits the
\* new mapping when the target has no mapping of the same provider yet, and
\* is rolled back, creating no mapping, when it has one.
C38_MappingOnDiscard ==
    [][DiscardedByKey =>
        /\ events' = events
        /\ IF \E i \in DOMAIN mappings :
                    /\ mappings[i].event_id = last'.target
                    /\ mappings[i].source_name = last'.x.source_name
           THEN /\ last'.outcome = "rolled_back"
                /\ mappings' = mappings
           ELSE /\ last'.outcome = "committed"
                /\ MappingAdded(last'.target)]_vars

\* A discarded observation of a second provider left its mapping on an
\* event it reached by the dedup key.
C38_Witness ==
    /\ last.via = "key"
    /\ ~last.should_update
    /\ last.outcome = "committed"
    /\ events[last.target] = last.before[1]
    /\ events[last.target].last_data_source # Some(last.x.source_name)
    /\ mappings[Len(mappings)] =
            NewMapping(last.target, last.x.source_name, last.x.source_event_id)

\* Session s ends its transaction in this step.
TxEnds(s) == txn[s].stage = "read" /\ txn'[s].stage = "done"

\* Every event has a mapping and every mapping points to an event.
NoPartialRows ==
    /\ \A i \in DOMAIN events :
        \E j \in DOMAIN mappings : mappings[j].event_id = i
    /\ \A j \in DOMAIN mappings : mappings[j].event_id \in DOMAIN events

\* C39: an upsert whose commit fails is rolled back as a whole: a step that
\* ends a transaction in a rollback leaves both tables as they were, the
\* tables change only in a step that commits a transaction and then by the
\* whole set of rows that transaction wrote, and in every state each event
\* has a mapping and each mapping has its event.
C39_AllOrNothing ==
    /\ []NoPartialRows
    /\ [][/\ \A s \in Sessions :
                TxEnds(s) =>
                    IF txn'[s].outcome = "rolled_back"
                    THEN events' = events /\ mappings' = mappings
                    ELSE /\ events' = TxEvents(events, txn[s])
                         /\ mappings' = TxMappings(events, mappings, txn[s])
           /\ (events' # events \/ mappings' # mappings) =>
                \E r \in Sessions :
                    TxEnds(r) /\ txn'[r].outcome = "committed"]_vars

\* One session's transaction was rolled back and the other session's
\* transaction is committed.
C39_Witness ==
    \E s, r \in Sessions :
        /\ txn[s].stage = "done" /\ txn[s].outcome = "rolled_back"
        /\ txn[r].stage = "done" /\ txn[r].outcome = "committed"
        /\ events # <<>>

\* C33: a pass that finds events needing attention handles every one of
\* them exactly once, one after the other, in ascending order of start.
C33_SequentialInOrder ==
    (monitor.passes > 0 /\ AttentionList # {}) =>
        /\ Len(monitor.handled) = Cardinality(AttentionList)
        /\ {monitor.handled[k] : k \in DOMAIN monitor.handled} = AttentionList
        /\ \A a, b \in DOMAIN monitor.handled :
            a < b => events[monitor.handled[a]].event_timestamp[1]
                        <= events[monitor.handled[b]].event_timestamp[1]

\* C34: every pass opens a session of its own, runs its queries and upserts
\* on that session and has closed it when the pass goes to sleep.
C34_SessionScope ==
    monitor.passes > 0 =>
        /\ monitor.sessions = monitor.passes
        /\ monitor.query_session = monitor.sessions
        /\ ~monitor.session_open

\* C35: every pass runs the attention query and then sleeps exactly once,
\* for a positive time.
C35_CycleShape ==
    monitor.passes > 0 =>
        /\ monitor.queried
        /\ monitor.naps = 1
        /\ monitor.slept > 0
====
